---------------------------- MODULE Spec2Model ----------------------------
(***************************************************************************)
(* Montgomery multiplication (package montgomery): the three contexts      *)
(* Montgomery (bit-serial REDC), MontgomeryCIOS (word-serial CIOS over      *)
(* big.Int) and MontgomeryWords (CIOS over []uint64), their constructors,   *)
(* Mul and redc, newtonRaphsonInverse, mulAddScalar and the word-array      *)
(* conversions.                                                             *)
(*                                                                          *)
(* Machine words are WordBits wide instead of 64: every uint64 operation    *)
(* of the source is taken modulo W = 2^WordBits, every big.Int operation is *)
(* exact integer arithmetic.  big.Int and []uint64 objects live on a heap   *)
(* (ints, bufs) addressed by <<owner, name>>, owner 0 being the context.    *)
(***************************************************************************)
EXTENDS Integers, Sequences, FiniteSets, TLC

VARIABLES ctx, ctx0, ints, bufs, call, mas, nr, fn

vars == <<ctx, ctx0, ints, bufs, call, mas, nr, fn>>

(***************************************************************************)
(* Bounds of the model.                                                     *)
(***************************************************************************)
WordBits == 2      \* width of a machine word (64 in the source)
MaxS     == 3      \* largest number of words spanned by R
MaxN     == 17     \* largest modulus handed to a constructor
NRBits   == 8      \* word width used when the inverse derivation runs alone
MaxT     == 3      \* longest buffer handed to mulAddScalar when it runs alone

W == 2^WordBits           \* one past the largest word value
NRWord == 2^NRBits
MaxR == 2^(WordBits * MaxS)

Procs == {1, 2}           \* goroutines calling Mul

(***************************************************************************)
(* math/bits and math/big primitives.                                       *)
(***************************************************************************)
\* bits.Mul64: the double-word product split into (hi, lo)
Mul64(a, b) == [hi |-> (a * b) \div W, lo |-> (a * b) % W]

\* bits.Add64: sum with carry-in, giving (sum, carryOut)
Add64(a, b, c) == [sum |-> (a + b + c) % W, carry |-> (a + b + c) \div W]

RECURSIVE BitLen(_)
\* big.Int.BitLen: number of bits of |x|, 0 for x = 0
BitLen(x) == IF x = 0 THEN 0 ELSE 1 + BitLen(x \div 2)

\* big.Int.Uint64: the low word of a non-negative x
Uint64(x) == x % W

RECURSIVE Bits(_)
\* big.Int.Bits: the words of |x|, least significant first, no high zero word
Bits(x) == IF x = 0 THEN << >> ELSE <<x % W>> \o Bits(x \div W)

RECURSIVE tobigInt(_)
\* tobigInt: SetBits on a copy of the words; value sum of words[i] * W^i
tobigInt(words) ==
  IF words = << >> THEN 0 ELSE Head(words) + W * tobigInt(Tail(words))

RECURSIVE Reverse(_)
Reverse(w) == IF w = << >> THEN << >> ELSE Reverse(Tail(w)) \o <<Head(w)>>

\* Mutant: the words are stored most significant first.
frombigIntBigEndian(x) == Reverse(Bits(x))

\* frombigInt: a fresh []uint64 holding x.Bits()
frombigInt(x) == Bits(x)

\* make([]uint64, n)
Zeros(n) == [j \in 1..n |-> 0]

IsPow2(r) == r >= 1 /\ 2^(BitLen(r) - 1) = r

(***************************************************************************)
(* newtonRaphsonInverse.  M is the wraparound modulus of the unsigned type  *)
(* (2^64 in the source).                                                    *)
(***************************************************************************)
\* Mutant: the factor x of the update is dropped.
nrUpdateNoX(x, n, M) == (2 - ((n * x) % M)) % M

\* x = x * (2 - n*x), each operation wrapping
nrUpdate(x, n, M) == (x * ((2 - ((n * x) % M)) % M)) % M

\* Mutant: the negation is forgotten and x itself is returned.
nrNoNegate(x, M) == x

\* return -x
nrNegate(x, M) == (0 - x) % M

nrInverseMod(n, M) ==
  LET x1 == nrUpdate(1, n, M)
      x2 == nrUpdate(x1, n, M)
      x3 == nrUpdate(x2, n, M)
      x4 == nrUpdate(x3, n, M)
      x5 == nrUpdate(x4, n, M)
      x6 == nrUpdate(x5, n, M)
  IN nrNegate(x6, M)

newtonRaphsonInverse(n) == nrInverseMod(n, W)

(***************************************************************************)
(* mulAddScalar(T, arr, scalar).  The Go function updates T in place and    *)
(* returns nothing; the operator returns the final T, whether an index went  *)
(* out of range (ok = FALSE, a run-time panic) and the carry left when the   *)
(* second loop stopped.  Indices are 1-based here, 0-based in the source.    *)
(***************************************************************************)
\* Mutant: the carry of the second addition is left out of the new carry.
masWordNoC2(t, ai, scalar, carry) ==
  LET m  == Mul64(ai, scalar)
      a1 == Add64(t, m.lo, 0)
      a2 == Add64(a1.sum, carry, 0)
  IN [sum |-> a2.sum, carry |-> m.hi + a1.carry]

\* the body of the first loop for one word: the word stored in T[i] and the
\* value hi + c1 + c2, before it is stored in the uint64 carry
masWord(t, ai, scalar, carry) ==
  LET m  == Mul64(ai, scalar)
      a1 == Add64(t, m.lo, 0)
      a2 == Add64(a1.sum, carry, 0)
  IN [sum |-> a2.sum, carry |-> m.hi + a1.carry + a2.carry]

RECURSIVE masLoop1(_, _, _, _, _)
masLoop1(T, arr, scalar, i, carry) ==
  IF i > Len(arr) THEN [ok |-> TRUE, T |-> T, carry |-> carry]
  ELSE IF i > Len(T) THEN [ok |-> FALSE, T |-> T, carry |-> carry]
  ELSE LET w == masWord(T[i], arr[i], scalar, carry)
       IN masLoop1([T EXCEPT ![i] = w.sum], arr, scalar, i + 1, w.carry % W)

RECURSIVE masLoop2(_, _, _)
masLoop2(T, k, carry) ==
  IF carry > 0 /\ k <= Len(T)
  THEN LET a == Add64(T[k], carry, 0)
       IN masLoop2([T EXCEPT ![k] = a.sum], k + 1, a.carry)
  ELSE [ok |-> TRUE, T |-> T, carry |-> carry]

\* Mutant: the carry left after the last word of arr is not propagated.
mulAddScalarNoTail(T, arr, scalar) == masLoop1(T, arr, scalar, 1, 0)

mulAddScalar(T, arr, scalar) ==
  LET r1 == masLoop1(T, arr, scalar, 1, 0)
  IN IF r1.ok THEN masLoop2(r1.T, Len(arr) + 1, r1.carry) ELSE r1

(***************************************************************************)
(* One loop iteration of each reduction, and the final subtraction.         *)
(***************************************************************************)
\* Mutant: the conditional addition of N is left out.
BitAddNever(T, N) == T

\* Montgomery.redc, loop body up to the shift: add N if the low bit is set
BitAdd(T, N) == IF T % 2 = 1 THEN T + N ELSE T

\* Montgomery.redc, loop body: the conditional addition, then Rsh(result, 1)
BitIter(T, N) == BitAdd(T, N) \div 2

\* MontgomeryCIOS.redc, loop body: T += x*yi; mm = low word of T*NI;
\* T += mm*N; T >>= word
\* Mutant: mm is taken from the low word of T without the factor NI.
CIOSmmNoNI(T1, NI) == Uint64(T1)

\* mm := (T * NI).Uint64()
CIOSmm(T1, NI) == Uint64(T1 * NI)

\* MontgomeryCIOS.redc, loop body up to the shift
CIOSAdd(T, x, yi, N, NI) ==
  LET T1 == T + x * yi
  IN T1 + CIOSmm(T1, NI) * N

CIOSIter(T, x, yi, N, NI) == CIOSAdd(T, x, yi, N, NI) \div W

\* word i (0-based) of yy, zero beyond its length
WordAt(yy, i) == IF i < Len(yy) THEN yy[i + 1] ELSE 0

RECURSIVE inlLoop1(_, _, _, _, _)
\* MontgomeryWords.redc, the inlined multiply-accumulate loop over a word
\* sequence (written twice in the source: over xx with yi, over NN with mul)
inlLoop1(T, arr, scalar, j, carry) ==
  IF j > Len(arr) THEN [ok |-> TRUE, T |-> T, carry |-> carry]
  ELSE IF j > Len(T) THEN [ok |-> FALSE, T |-> T, carry |-> carry]
  ELSE LET m  == Mul64(arr[j], scalar)
           a1 == Add64(T[j], m.lo, 0)
           a2 == Add64(a1.sum, carry, 0)
       IN inlLoop1([T EXCEPT ![j] = a2.sum], arr, scalar, j + 1,
                   (m.hi + a1.carry + a2.carry) % W)

RECURSIVE inlLoop2(_, _, _)
\* MontgomeryWords.redc, the inlined carry propagation beyond the sequence
inlLoop2(T, k, carry) ==
  IF carry > 0 /\ k <= Len(T)
  THEN LET a == Add64(T[k], carry, 0)
       IN inlLoop2([T EXCEPT ![k] = a.sum], k + 1, a.carry)
  ELSE [ok |-> TRUE, T |-> T, carry |-> carry]

\* Mutant: the inlined loops stop at the last word of the sequence, the
\* carry is not propagated.
inlMulAddNoTail(T, arr, scalar) == inlLoop1(T, arr, scalar, 1, 0)

\* MontgomeryWords.redc, T += arr * scalar written out in the loop body
inlMulAdd(T, arr, scalar) ==
  LET r1 == inlLoop1(T, arr, scalar, 1, 0)
  IN IF r1.ok THEN inlLoop2(r1.T, Len(arr) + 1, r1.carry) ELSE r1

\* MontgomeryWords.redc, loop body: T += x*yi; mul = T[0]*NI; T += mul*N;
\* T = T[1:].  ok = FALSE when an index is out of range; low is the word
\* that T[1:] drops.
WordsIter(T, xx, yi, NN, NI) ==
  LET r1 == inlMulAdd(T, xx, yi)
  IN IF ~r1.ok \/ Len(r1.T) = 0
     THEN [ok |-> FALSE, T |-> T, carry |-> 0, low |-> 0]
     ELSE LET mul == (r1.T[1] * NI) % W
              r2  == inlMulAdd(r1.T, NN, mul)
          IN IF ~r2.ok THEN [ok |-> FALSE, T |-> T, carry |-> 0, low |-> 0]
             ELSE [ok |-> TRUE, T |-> Tail(r2.T), carry |-> r2.carry,
                   low |-> Head(r2.T)]

\* Mutant: the final conditional subtraction is left out.
FinalSubSkipped(T, N) == T

\* if T >= N then T -= N
FinalSub(T, N) == IF T >= N THEN T - N ELSE T

(***************************************************************************)
(* Constructors: the field values of the context they return.  Fields a     *)
(* struct does not have are 0 / empty.  None of them checks its arguments.   *)
(***************************************************************************)
NewMontgomery(R, N) ==
  [kind |-> "Bitwise", R |-> R, N |-> N, RR |-> (R * R) % N,
   NI |-> 0, S |-> 0, NN |-> << >>]

\* Mutant: the word count is rounded up instead of down.
NewMontgomeryCIOSCeil(R, N) ==
  [kind |-> "CIOS", R |-> R, N |-> N, RR |-> (R * R) % N,
   NI |-> newtonRaphsonInverse(Uint64(N)),
   S |-> (BitLen(R) + WordBits - 1) \div WordBits, NN |-> << >>]

NewMontgomeryCIOS(R, N) ==
  [kind |-> "CIOS", R |-> R, N |-> N, RR |-> (R * R) % N,
   NI |-> newtonRaphsonInverse(Uint64(N)), S |-> BitLen(R) \div WordBits,
   NN |-> << >>]

\* Mutant: R is reduced without being squared.
NewMontgomeryWordsRRNotSquared(R, N) ==
  [kind |-> "Words", R |-> R, N |-> N, RR |-> R % N,
   NI |-> newtonRaphsonInverse(Uint64(N)), S |-> BitLen(R) \div WordBits,
   NN |-> frombigInt(N)]

NewMontgomeryWords(R, N) ==
  [kind |-> "Words", R |-> R, N |-> N, RR |-> (R * R) % N,
   NI |-> newtonRaphsonInverse(Uint64(N)), S |-> BitLen(R) \div WordBits,
   NN |-> frombigInt(N)]

Kinds == {"Bitwise", "CIOS", "Words"}

Construct(kind, R, N) ==
  CASE kind = "Bitwise" -> NewMontgomery(R, N)
    [] kind = "CIOS"    -> NewMontgomeryCIOS(R, N)
    [] kind = "Words"   -> NewMontgomeryWords(R, N)

(***************************************************************************)
(* The reductions and Mul as functions of a context value c, run alone from  *)
(* start to end: [ok, val], ok = FALSE when the call panics.                 *)
(***************************************************************************)
RECURSIVE bitLoop(_, _, _, _)
bitLoop(T, N, r, bl) == IF r < bl THEN bitLoop(BitIter(T, N), N, r + 1, bl) ELSE T

Montgomery_redc(c, x, y) ==
  [ok |-> TRUE, val |-> FinalSub(bitLoop(x * y, c.N, 1, BitLen(c.R)), c.N)]

RECURSIVE ciosLoop(_, _, _, _, _)
ciosLoop(c, T, x, yy, i) ==
  IF i < c.S THEN ciosLoop(c, CIOSIter(T, x, WordAt(yy, i), c.N, c.NI), x, yy, i + 1)
  ELSE T

MontgomeryCIOS_redc(c, x, y) ==
  [ok |-> TRUE, val |-> FinalSub(ciosLoop(c, 0, x, Bits(y), 0), c.N)]

RECURSIVE wordsLoop(_, _, _, _, _)
wordsLoop(c, T, xx, yy, i) ==
  IF i < c.S
  THEN LET r == WordsIter(T, xx, WordAt(yy, i), c.NN, c.NI)
       IN IF r.ok THEN wordsLoop(c, r.T, xx, yy, i + 1) ELSE r
  ELSE [ok |-> TRUE, T |-> T, carry |-> 0, low |-> 0]

MontgomeryWords_redc(c, x, y) ==
  LET T0 == Zeros(Len(Bits(x)) + Len(Bits(y)) + c.S + 1)
      r  == wordsLoop(c, T0, frombigInt(x), frombigInt(y), 0)
  IN IF r.ok THEN [ok |-> TRUE, val |-> FinalSub(tobigInt(r.T), c.N)]
     ELSE [ok |-> FALSE, val |-> 0]

redcOf(c, x, y) ==
  CASE c.kind = "Bitwise" -> Montgomery_redc(c, x, y)
    [] c.kind = "CIOS"    -> MontgomeryCIOS_redc(c, x, y)
    [] c.kind = "Words"   -> MontgomeryWords_redc(c, x, y)

\* Mul: redc(x, RR), redc(y, RR), redc(xMont, yMont), redc(result, 1)
MulOf(c, x, y) ==
  LET xMont == redcOf(c, x, c.RR)
      yMont == redcOf(c, y, c.RR)
  IN IF ~xMont.ok \/ ~yMont.ok THEN [ok |-> FALSE, val |-> 0]
     ELSE LET result == redcOf(c, xMont.val, yMont.val)
          IN IF ~result.ok THEN result ELSE redcOf(c, result.val, 1)

(***************************************************************************)
(* The standalone functions redc, redc2 and redc3, which take R and N as    *)
(* arguments: one loop iteration of each, and the whole call.  A call       *)
(* returns [ok, val], ok = FALSE when it panics.                            *)
(***************************************************************************)
\* redc, loop body
redcIter(result, N) == (IF result % 2 = 1 THEN result + N ELSE result) \div 2

RECURSIVE redcLoop(_, _, _, _)
\* redc, the loop: for r := 1; r < R.BitLen(); r++
redcLoop(result, N, r, bl) ==
  IF r < bl THEN redcLoop(redcIter(result, N), N, r + 1, bl) ELSE result

redc(x, y, R, N) ==
  LET result == redcLoop(x * y, N, 1, BitLen(R))
  IN [ok |-> TRUE, val |-> IF result >= N THEN result - N ELSE result]

\* redc2, loop body
redc2Iter(T, x, yi, N, NI) ==
  LET T1 == T + x * yi
      m  == Uint64(T1 * NI)
  IN (T1 + m * N) \div W

RECURSIVE redc2Loop(_, _, _, _, _, _, _)
\* redc2, the loop: for i := range s
redc2Loop(T, x, yy, N, NI, i, s) ==
  IF i < s
  THEN redc2Loop(redc2Iter(T, x, WordAt(yy, i), N, NI), x, yy, N, NI, i + 1, s)
  ELSE T

redc2(x, y, R, N) ==
  LET NI == newtonRaphsonInverse(Uint64(N))
      s  == BitLen(R) \div WordBits
      T  == redc2Loop(0, x, Bits(y), N, NI, 0, s)
  IN [ok |-> TRUE, val |-> IF T >= N THEN T - N ELSE T]

\* redc3, loop body: mulAddScalar(T, xx, yi); m := T[0] * NI;
\* mulAddScalar(T, nn, m); T = T[1:].  ok = FALSE when an index is out of
\* range; lost: a mulAddScalar call ended with a carry left; fits: T was at
\* least as long as xx and as nn.
redc3Iter(T, xx, yi, nn, NI) ==
  LET fit == Len(T) >= Len(xx) /\ Len(T) >= Len(nn)
      r1  == mulAddScalar(T, xx, yi)
  IN IF ~r1.ok \/ Len(r1.T) = 0
     THEN [ok |-> FALSE, T |-> r1.T, lost |-> FALSE, fits |-> fit]
     ELSE LET m  == (r1.T[1] * NI) % W
              r2 == mulAddScalar(r1.T, nn, m)
          IN IF ~r2.ok
             THEN [ok |-> FALSE, T |-> r2.T, lost |-> r1.carry > 0, fits |-> fit]
             ELSE [ok |-> TRUE, T |-> Tail(r2.T),
                   lost |-> r1.carry > 0 \/ r2.carry > 0, fits |-> fit]

RECURSIVE redc3Loop(_, _, _, _, _, _, _)
\* redc3, the loop: for i := range s
redc3Loop(T, xx, yy, nn, NI, i, s) ==
  IF i < s
  THEN LET r == redc3Iter(T, xx, WordAt(yy, i), nn, NI)
       IN IF r.ok THEN redc3Loop(r.T, xx, yy, nn, NI, i + 1, s) ELSE r
  ELSE [ok |-> TRUE, T |-> T, lost |-> FALSE, fits |-> TRUE]

redc3(x, y, R, N) ==
  LET s  == BitLen(R) \div WordBits
      T  == Zeros(Len(Bits(x)) + Len(Bits(y)) + s + 1)
      NI == newtonRaphsonInverse(Uint64(N))
      r  == redc3Loop(T, frombigInt(x), frombigInt(y), frombigInt(N), NI, 0, s)
      t  == tobigInt(r.T)
  IN [ok |-> r.ok, val |-> IF ~r.ok THEN 0 ELSE IF t >= N THEN t - N ELSE t]

(***************************************************************************)
(* The heap.  Context objects are owned by 0, a call's objects by the        *)
(* goroutine p that makes the call.  <<0, "argR">> and <<0, "argN">> are the *)
(* caller's own integers, which it passed to the constructor.                *)
(***************************************************************************)
TNames == <<"T1", "T2", "T3", "T4">>

\* Every address has a big.Int cell (ints) and a []uint64 cell (bufs); a cell
\* that is not in use holds 0 / the empty slice.
Addrs == ({0} \X {"R", "N", "RR", "NN", "argR", "argN"})
         \cup (Procs \X {"x", "y", "one", "T1", "T2", "T3", "T4"})

\* the integers the caller passed to the constructor as R and N
ArgR == <<0, "argR">>

ArgN == <<0, "argN">>

\* Mutant: the context keeps the caller's pointer to R.
RAddrArg == <<0, "argR">>

\* m.R: the integer new(big.Int).Set(R) made
RAddr == <<0, "R">>

\* Mutant: the context keeps the caller's pointer to N.
NAddrArg == <<0, "argN">>

\* m.N: the integer new(big.Int).Set(N) made
NAddr == <<0, "N">>

\* Mutant: redc accumulates in place in the context's RR.
TAddrInContext(p, st) == <<0, "RR">>

\* Mutant: redc accumulates in one buffer per stage, shared by all callers.
TAddrShared(p, st) == <<1, TNames[st]>>

\* The accumulator of the redc call at stage st of p's Mul: each redc
\* allocates its own (new(big.Int), make([]uint64, ...)) and returns it.
TAddr(p, st) == <<p, TNames[st]>>

\* The operands of the redc call at stage st: (x, RR), (y, RR),
\* (xMont, yMont), (result, 1)
XAddr(p, st) ==
  CASE st = 1 -> <<p, "x">>
    [] st = 2 -> <<p, "y">>
    [] st = 3 -> TAddr(p, 1)
    [] st = 4 -> TAddr(p, 3)

YAddr(p, st) ==
  CASE st = 1 -> <<0, "RR">>
    [] st = 2 -> <<0, "RR">>
    [] st = 3 -> TAddr(p, 2)
    [] st = 4 -> <<p, "one">>

NoCtx == [kind |-> "none", NI |-> 0, S |-> 0]

NoCtxVal ==
  [kind |-> "none", R |-> 0, N |-> 0, RR |-> 0, NI |-> 0, S |-> 0, NN |-> << >>]

\* The context as the methods read it: the struct's fields and the objects
\* its pointer and slice fields refer to.
CtxVal ==
  [kind |-> ctx.kind, R |-> ints[RAddr], N |-> ints[NAddr],
   RR |-> ints[<<0, "RR">>], NI |-> ctx.NI, S |-> ctx.S, NN |-> bufs[<<0, "NN">>]]

\* The frame of a call: where it is (pc, stage, loop counter i), the local
\* copies xx, yy, the operand values the caller passed (x0, y0), and whether
\* a step of this call was taken while another call was in progress (ov),
\* the bits the last right shift of the accumulator discarded (low), the
\* operand values of the redc calls made so far (ops) and the values they
\* returned (rets).
Idle == [pc |-> "idle", stage |-> 0, i |-> 0, xx |-> << >>, yy |-> << >>,
         x0 |-> 0, y0 |-> 0, ov |-> FALSE, low |-> 0,
         ops |-> << >>, rets |-> << >>]

InCall(p) == call[p].pc \in {"enter", "loop"}

Overlaps(p) == call[p].ov \/ \E q \in Procs \ {p} : InCall(q)

MasIdle == [pc |-> "off", T |-> << >>, arr |-> << >>, scalar |-> 0,
            out |-> << >>, ok |-> TRUE, carry |-> 0]

NrIdle == [pc |-> "off", n |-> 0, x |-> 0, i |-> 0, out |-> 0]

\* The frame of a standalone call (or of the round trip through a context's
\* redc): the function and its arguments, the values the redc calls made so
\* far returned (vals), and of the redc call in progress the operands (a, b),
\* the accumulator (T as big.Int, Tw as []uint64) and the loop counter i.
\* lost and fits record what the mulAddScalar calls of redc3 did: a carry
\* left when a call ended; T at least as long as both sequences added to it.
FnIdle == [pc |-> "off", name |-> "none", kind |-> "none", x |-> 0, y |-> 0,
           R |-> 0, N |-> 0, vals |-> << >>, a |-> 0, b |-> 0, T |-> 0,
           Tw |-> << >>, i |-> 0, lost |-> FALSE, fits |-> TRUE, out |-> 0]

\* What the contract asks of the caller of a constructor: N odd, R = 2^k with
\* k a positive multiple of the word size, R > N.
ValidParams(R, N) ==
  /\ N % 2 = 1
  /\ \E s \in 1..MaxS : R = 2^(WordBits * s)
  /\ R > N

Constructed == ctx.kind # "none"

\* Arguments a caller may hand to a constructor
RInputs == {2^k : k \in 0..(WordBits * MaxS)} \cup {3 * 2^k : k \in 0..WordBits}

NInputs == 1..MaxN

Init ==
  /\ ctx = NoCtx
  /\ ctx0 = NoCtxVal
  /\ ints = [a \in Addrs |-> 0]
  /\ bufs = [a \in Addrs |-> << >>]
  /\ call = [p \in Procs |-> Idle]
  /\ mas = MasIdle
  /\ nr = NrIdle
  /\ fn = FnIdle

(***************************************************************************)
(* NewMontgomery / NewMontgomeryCIOS / NewMontgomeryWords(R, N)              *)
(***************************************************************************)
New(kind, R, N) ==
  /\ LET c == Construct(kind, R, N)
     IN /\ ctx' = [kind |-> c.kind, NI |-> c.NI, S |-> c.S]
        /\ ints' = [ints EXCEPT ![ArgR] = R, ![ArgN] = N,
                                ![RAddr] = c.R, ![NAddr] = c.N,
                                ![<<0, "RR">>] = c.RR]
        /\ bufs' = [bufs EXCEPT ![<<0, "NN">>] = c.NN]
        /\ ctx0' = c
  /\ UNCHANGED <<call, mas, nr, fn>>

(***************************************************************************)
(* m.Mul(x, y), entered by goroutine p.                                      *)
(***************************************************************************)
Call(p, x, y) ==
  /\ ints' = [ints EXCEPT ![<<p, "x">>] = x, ![<<p, "y">>] = y]
  /\ call' = [call EXCEPT ![p] = [Idle EXCEPT !.pc = "enter", !.stage = 1,
                                              !.x0 = x, !.y0 = y]]
  /\ UNCHANGED <<ctx, ctx0, bufs, mas, nr, fn>>

\* redc, up to the loop: the accumulator is allocated and the operands read
RedcEnter(p) ==
  /\ call[p].pc = "enter"
  /\ LET st    == call[p].stage
         t     == TAddr(p, st)
         ints1 == IF st = 4 THEN [ints EXCEPT ![<<p, "one">>] = 1] ELSE ints
         x     == ints1[XAddr(p, st)]
         y     == ints1[YAddr(p, st)]
     IN CASE ctx.kind = "Bitwise" ->
               /\ ints' = [ints1 EXCEPT ![t] = x * y]
               /\ call' = [call EXCEPT ![p].pc = "loop", ![p].i = 1,
                                       ![p].ops = Append(@, <<x, y>>)]
               /\ UNCHANGED bufs
          [] ctx.kind = "CIOS" ->
               /\ ints' = [ints1 EXCEPT ![t] = 0]
               /\ call' = [call EXCEPT ![p].pc = "loop", ![p].i = 0,
                                       ![p].yy = Bits(y),
                                       ![p].ops = Append(@, <<x, y>>)]
               /\ UNCHANGED bufs
          [] ctx.kind = "Words" ->
               /\ ints' = ints1
               /\ bufs' = [bufs EXCEPT
                             ![t] = Zeros(Len(Bits(x)) + Len(Bits(y)) + ctx.S + 1)]
               /\ call' = [call EXCEPT ![p].pc = "loop", ![p].i = 0,
                                       ![p].xx = frombigInt(x),
                                       ![p].yy = frombigInt(y),
                                       ![p].ops = Append(@, <<x, y>>)]
  /\ UNCHANGED <<ctx, ctx0, mas, nr, fn>>

\* Mutant: the loop of every variant stops one iteration early.
LoopOnShort(p) ==
  IF ctx.kind = "Bitwise" THEN call[p].i < BitLen(ints[RAddr]) - 1
  ELSE call[p].i < ctx.S - 1

\* the loop condition of the redc that p is in
LoopOn(p) ==
  IF ctx.kind = "Bitwise" THEN call[p].i < BitLen(ints[RAddr])
  ELSE call[p].i < ctx.S

\* one iteration of the loop
RedcIter(p) ==
  /\ call[p].pc = "loop"
  /\ LoopOn(p)
  /\ LET st == call[p].stage
         t  == TAddr(p, st)
         N  == ints[NAddr]
         yi == WordAt(call[p].yy, call[p].i)
     IN CASE ctx.kind = "Bitwise" ->
               /\ ints' = [ints EXCEPT ![t] = BitIter(ints[t], N)]
               /\ call' = [call EXCEPT ![p].i = @ + 1, ![p].ov = Overlaps(p),
                                       ![p].low = BitAdd(ints[t], N) % 2]
               /\ UNCHANGED bufs
          [] ctx.kind = "CIOS" ->
               /\ ints' = [ints EXCEPT
                             ![t] = CIOSIter(ints[t], ints[XAddr(p, st)], yi, N, ctx.NI)]
               /\ call' = [call EXCEPT ![p].i = @ + 1, ![p].ov = Overlaps(p),
                                       ![p].low = CIOSAdd(ints[t], ints[XAddr(p, st)],
                                                          yi, N, ctx.NI) % W]
               /\ UNCHANGED bufs
          [] ctx.kind = "Words" ->
               LET r == WordsIter(bufs[t], call[p].xx, yi, bufs[<<0, "NN">>], ctx.NI)
               IN /\ bufs' = [bufs EXCEPT ![t] = r.T]
                  /\ call' = IF r.ok
                             THEN [call EXCEPT ![p].i = @ + 1, ![p].ov = Overlaps(p),
                                               ![p].low = r.low]
                             ELSE [call EXCEPT ![p].pc = "panic"]
                  /\ UNCHANGED ints
  /\ UNCHANGED <<ctx, ctx0, mas, nr, fn>>

\* after the loop: the conditional subtraction and the return to Mul
RedcExit(p) ==
  /\ call[p].pc = "loop"
  /\ ~LoopOn(p)
  /\ LET st == call[p].stage
         t  == TAddr(p, st)
         N  == ints[NAddr]
         T  == IF ctx.kind = "Words" THEN tobigInt(bufs[t]) ELSE ints[t]
     IN /\ ints' = [ints EXCEPT ![t] = FinalSub(T, N)]
        /\ call' = IF st < 4
                   THEN [call EXCEPT ![p].pc = "enter", ![p].stage = st + 1,
                                     ![p].i = 0, ![p].xx = << >>, ![p].yy = << >>,
                                     ![p].rets = Append(@, FinalSub(T, N))]
                   ELSE [call EXCEPT ![p].pc = "done", ![p].i = 0,
                                     ![p].xx = << >>, ![p].yy = << >>,
                                     ![p].rets = Append(@, FinalSub(T, N))]
  /\ UNCHANGED <<ctx, ctx0, bufs, mas, nr, fn>>

\* Mul has returned and its objects are dropped; p may call again
Return(p) ==
  /\ call[p].pc = "done"
  /\ call' = [call EXCEPT ![p] = Idle]
  /\ ints' = [a \in Addrs |-> IF a[1] = p THEN 0 ELSE ints[a]]
  /\ bufs' = [a \in Addrs |-> IF a[1] = p THEN << >> ELSE bufs[a]]
  /\ UNCHANGED <<ctx, ctx0, mas, nr, fn>>

\* the value Mul returned to p
Result(p) == ints[TAddr(p, 4)]

\* A constructor is called once, with any arguments
Create ==
  /\ ~Constructed
  /\ \E kind \in Kinds, R \in RInputs, N \in NInputs : New(kind, R, N)

\* Callers keep to the contract of Mul: a context built from valid
\* parameters, and operands in [0, N)
CanCall(p) ==
  /\ call[p].pc = "idle"
  /\ Constructed
  /\ ValidParams(ints[RAddr], ints[NAddr])

Operands == 0..(ints[NAddr] - 1)

Next ==
  \/ Create
  \/ CanCall(1) /\ \E x \in Operands, y \in Operands : Call(1, x, y)
  \/ RedcEnter(1)
  \/ RedcIter(1)
  \/ RedcExit(1)
  \/ Return(1)

Spec == Init /\ [][Next]_vars

(***************************************************************************)
(* Two goroutines share one context.  The context is built over the largest *)
(* R and the largest odd modulus; the operands are the ends of [0, N).       *)
(***************************************************************************)
ConcN == IF MaxN % 2 = 1 THEN MaxN ELSE MaxN - 1

ConcOperands == {0, ConcN - 1}

CreateConc ==
  /\ ~Constructed
  /\ \E kind \in Kinds : New(kind, MaxR, ConcN)

NextConc ==
  \/ CreateConc
  \/ \E p \in Procs :
       CanCall(p) /\ \E x \in ConcOperands, y \in ConcOperands : Call(p, x, y)
  \/ \E p \in Procs : RedcEnter(p)
  \/ \E p \in Procs : RedcIter(p)
  \/ \E p \in Procs : RedcExit(p)
  \/ \E p \in Procs : Return(p)

SpecConc == Init /\ [][NextConc]_vars

(***************************************************************************)
(* newtonRaphsonInverse(n) run alone, one update per step, over a word of    *)
(* NRBits bits.                                                              *)
(***************************************************************************)
InitNR ==
  /\ ctx = NoCtx
  /\ ctx0 = NoCtxVal
  /\ ints = [a \in Addrs |-> 0]
  /\ bufs = [a \in Addrs |-> << >>]
  /\ call = [p \in Procs |-> Idle]
  /\ mas = MasIdle
  /\ fn = FnIdle
  /\ nr \in {[pc |-> "run", n |-> n, x |-> 1, i |-> 0, out |-> 0] :
               n \in 0..(NRWord - 1)}

\* one of the six lines x = x * (2 - n*x)
NRUpdate ==
  /\ nr.pc = "run"
  /\ nr.i < 6
  /\ nr' = [nr EXCEPT !.x = nrUpdate(nr.x, nr.n, NRWord), !.i = @ + 1]
  /\ UNCHANGED <<ctx, ctx0, ints, bufs, call, mas, fn>>

\* return -x
NRReturn ==
  /\ nr.pc = "run"
  /\ nr.i = 6
  /\ nr' = [nr EXCEPT !.pc = "ret", !.out = nrNegate(nr.x, NRWord)]
  /\ UNCHANGED <<ctx, ctx0, ints, bufs, call, mas, fn>>

NextNR == NRUpdate \/ NRReturn

SpecNR == InitNR /\ [][NextNR]_vars

(***************************************************************************)
(* mulAddScalar(T, arr, scalar) run alone on buffers of sample words.        *)
(***************************************************************************)
WordSamples == {0, 1, W - 2, W - 1}

SeqsUpTo(n) == UNION {[1..k -> WordSamples] : k \in 0..n}

InitMAS ==
  /\ ctx = NoCtx
  /\ ctx0 = NoCtxVal
  /\ ints = [a \in Addrs |-> 0]
  /\ bufs = [a \in Addrs |-> << >>]
  /\ call = [p \in Procs |-> Idle]
  /\ nr = NrIdle
  /\ fn = FnIdle
  /\ mas \in {[pc |-> "call", T |-> T, arr |-> arr, scalar |-> sc,
               out |-> << >>, ok |-> TRUE, carry |-> 0] :
                T \in SeqsUpTo(MaxT), arr \in SeqsUpTo(MaxT - 1), sc \in WordSamples}

MasApply ==
  /\ mas.pc = "call"
  /\ LET r == mulAddScalar(mas.T, mas.arr, mas.scalar)
     IN mas' = [mas EXCEPT !.pc = IF r.ok THEN "ret" ELSE "panic",
                           !.out = r.T, !.ok = r.ok, !.carry = r.carry]
  /\ UNCHANGED <<ctx, ctx0, ints, bufs, call, nr, fn>>

NextMAS == MasApply

SpecMAS == InitMAS /\ [][NextMAS]_vars

(***************************************************************************)
(* The standalone functions and the domain round trip through a context's    *)
(* redc, each called once with arguments that keep to the contract: N odd,   *)
(* R = 2^k word-aligned with R > N, operands in [0, N).  R spans up to       *)
(* MaxS + 1 words here, and N is any odd modulus up to MaxN or the smallest  *)
(* modulus of MaxS + 1 words.                                                *)
(***************************************************************************)
FnNames == {"redc", "redc2", "redc3",
            "multiply", "multiply2", "multiply3", "multiply4"}

BigN == MaxR + 1

FnRs == {2^(WordBits * s) : s \in 1..(MaxS + 1)}

FnNs(R) == {n \in (1..MaxN) \cup {BigN} : n % 2 = 1 /\ n < R}

FnOperands(N) == IF N <= MaxN THEN 0..(N - 1) ELSE {0, 1, 2, N - 2, N - 1}

\* a call of a standalone function, or the round trip on a context of one
\* kind, about to be made
FnCall(nm, k, x, y, R, N) ==
  [FnIdle EXCEPT !.pc = "call", !.name = nm, !.kind = k,
                 !.x = x, !.y = y, !.R = R, !.N = N]

InitFn ==
  /\ ctx = NoCtx
  /\ ctx0 = NoCtxVal
  /\ ints = [a \in Addrs |-> 0]
  /\ bufs = [a \in Addrs |-> << >>]
  /\ call = [p \in Procs |-> Idle]
  /\ mas = MasIdle
  /\ nr = NrIdle
  /\ \E R \in FnRs :
       \E N \in FnNs(R) :
         \E x \in FnOperands(N) :
           \/ \E nm \in FnNames, y \in FnOperands(N) :
                fn = FnCall(nm, "none", x, y, R, N)
           \/ \E k \in Kinds : fn = FnCall("roundtrip", k, x, 0, R, N)

\* the reduction a function is built on: redc, redc2 or redc3, or the redc
\* method of a context
AlgOf(f) ==
  CASE f.name \in {"redc", "multiply", "multiply2"} -> "redc"
    [] f.name \in {"redc2", "multiply3"}            -> "redc2"
    [] f.name \in {"redc3", "multiply4"}            -> "redc3"
    [] OTHER                                        -> f.kind

\* the operands of the next redc call of f, given the values the calls made
\* so far returned; done when f has no further call to make
multiplyCalls(f) ==
  IF Len(f.vals) = 0
  THEN [done |-> FALSE, a |-> (f.x * f.R) % f.N, b |-> (f.y * f.R) % f.N]
  ELSE IF Len(f.vals) = 1 THEN [done |-> FALSE, a |-> f.vals[1], b |-> 1]
  ELSE [done |-> TRUE, a |-> 0, b |-> 0]

\* multiply2, multiply3, multiply4: (x, rr), (y, rr), (xMont, yMont), (result, 1)
multiply2Calls(f) ==
  LET rr == (f.R * f.R) % f.N
  IN CASE Len(f.vals) = 0 -> [done |-> FALSE, a |-> f.x, b |-> rr]
       [] Len(f.vals) = 1 -> [done |-> FALSE, a |-> f.y, b |-> rr]
       [] Len(f.vals) = 2 -> [done |-> FALSE, a |-> f.vals[1], b |-> f.vals[2]]
       [] Len(f.vals) = 3 -> [done |-> FALSE, a |-> f.vals[3], b |-> 1]
       [] OTHER           -> [done |-> TRUE, a |-> 0, b |-> 0]

\* m.redc(x, m.RR), then m.redc of its value and 1
roundTripCalls(f) ==
  IF Len(f.vals) = 0
  THEN [done |-> FALSE, a |-> f.x, b |-> Construct(f.kind, f.R, f.N).RR]
  ELSE IF Len(f.vals) = 1 THEN [done |-> FALSE, a |-> f.vals[1], b |-> 1]
  ELSE [done |-> TRUE, a |-> 0, b |-> 0]

\* a direct call of redc, redc2 or redc3, or of the redc method of a context
redcCalls(f) ==
  IF Len(f.vals) = 0 THEN [done |-> FALSE, a |-> f.x, b |-> f.y]
  ELSE [done |-> TRUE, a |-> 0, b |-> 0]

CallsOf(f) ==
  CASE f.name = "multiply"  -> multiplyCalls(f)
    [] f.name \in {"multiply2", "multiply3", "multiply4"} -> multiply2Calls(f)
    [] f.name = "roundtrip" -> roundTripCalls(f)
    [] OTHER                -> redcCalls(f)

\* NI as the redc call in progress has it: computed in the call by redc2 and
\* redc3, read from the context by a method
FnNI(f) ==
  IF f.kind # "none" THEN Construct(f.kind, f.R, f.N).NI
  ELSE newtonRaphsonInverse(Uint64(f.N))

\* s := R.BitLen() / wordSize
FnS(f) == BitLen(f.R) \div WordBits

\* the next redc call is entered: operands bound, accumulator allocated
FnEnter ==
  /\ fn.pc = "call"
  /\ ~CallsOf(fn).done
  /\ LET c == CallsOf(fn)
     IN fn' = [fn EXCEPT
                 !.pc = "loop", !.a = c.a, !.b = c.b,
                 !.i = IF AlgOf(fn) \in {"redc", "Bitwise"} THEN 1 ELSE 0,
                 !.T = IF AlgOf(fn) \in {"redc", "Bitwise"} THEN c.a * c.b ELSE 0,
                 !.Tw = IF AlgOf(fn) \in {"redc3", "Words"}
                        THEN Zeros(Len(Bits(c.a)) + Len(Bits(c.b)) + FnS(fn) + 1)
                        ELSE << >>]
  /\ UNCHANGED <<ctx, ctx0, ints, bufs, call, mas, nr>>

\* the loop condition of the redc call in progress
FnLoopOn ==
  IF AlgOf(fn) \in {"redc", "Bitwise"} THEN fn.i < BitLen(fn.R)
  ELSE fn.i < FnS(fn)

\* one iteration of the loop of the redc call in progress
FnIter ==
  /\ fn.pc = "loop"
  /\ FnLoopOn
  /\ LET alg == AlgOf(fn)
         yi  == WordAt(Bits(fn.b), fn.i)
         xx  == frombigInt(fn.a)
         nn  == frombigInt(fn.N)
     IN CASE alg = "redc" ->
               fn' = [fn EXCEPT !.T = redcIter(fn.T, fn.N), !.i = @ + 1]
          [] alg = "Bitwise" ->
               fn' = [fn EXCEPT !.T = BitIter(fn.T, fn.N), !.i = @ + 1]
          [] alg = "redc2" ->
               fn' = [fn EXCEPT !.T = redc2Iter(fn.T, fn.a, yi, fn.N, FnNI(fn)),
                                !.i = @ + 1]
          [] alg = "CIOS" ->
               fn' = [fn EXCEPT !.T = CIOSIter(fn.T, fn.a, yi, fn.N, FnNI(fn)),
                                !.i = @ + 1]
          [] alg = "redc3" ->
               LET r == redc3Iter(fn.Tw, xx, yi, nn, FnNI(fn))
               IN fn' = [fn EXCEPT !.Tw = r.T,
                                   !.pc = IF r.ok THEN "loop" ELSE "panic",
                                   !.i = IF r.ok THEN @ + 1 ELSE @,
                                   !.lost = @ \/ r.lost,
                                   !.fits = @ /\ r.fits]
          [] alg = "Words" ->
               LET r == WordsIter(fn.Tw, xx, yi, nn, FnNI(fn))
               IN fn' = [fn EXCEPT !.Tw = r.T,
                                   !.pc = IF r.ok THEN "loop" ELSE "panic",
                                   !.i = IF r.ok THEN @ + 1 ELSE @]
  /\ UNCHANGED <<ctx, ctx0, ints, bufs, call, mas, nr>>

\* after the loop: the conditional subtraction; the redc call returns
FnExit ==
  /\ fn.pc = "loop"
  /\ ~FnLoopOn
  /\ LET t == IF AlgOf(fn) \in {"redc3", "Words"} THEN tobigInt(fn.Tw) ELSE fn.T
     IN fn' = [fn EXCEPT !.pc = "call", !.vals = Append(@, FinalSub(t, fn.N)),
                         !.T = 0, !.Tw = << >>, !.i = 0]
  /\ UNCHANGED <<ctx, ctx0, ints, bufs, call, mas, nr>>

\* the function returns the value of its last redc call
FnReturn ==
  /\ fn.pc = "call"
  /\ CallsOf(fn).done
  /\ fn' = [fn EXCEPT !.pc = "ret", !.out = fn.vals[Len(fn.vals)]]
  /\ UNCHANGED <<ctx, ctx0, ints, bufs, call, mas, nr>>

NextFn ==
  \/ FnEnter
  \/ FnIter
  \/ FnExit
  \/ FnReturn

SpecFn == InitFn /\ [][NextFn]_vars

(***************************************************************************)
(* The word-by-word reductions called once with a second operand that has    *)
(* words above the S-th: y = ylow + h * R with ylow in [0, N).               *)
(***************************************************************************)
HighParts == {1, 2}

\* the reductions that read y word by word: the redc method of the CIOS and
\* of the word-array context (name "m.redc") and redc2, redc3
InitHigh ==
  /\ ctx = NoCtx
  /\ ctx0 = NoCtxVal
  /\ ints = [a \in Addrs |-> 0]
  /\ bufs = [a \in Addrs |-> << >>]
  /\ call = [p \in Procs |-> Idle]
  /\ mas = MasIdle
  /\ nr = NrIdle
  /\ \E R \in FnRs :
       \E N \in FnNs(R) :
         \E x \in FnOperands(N), ylow \in FnOperands(N), h \in HighParts :
           \/ \E nm \in {"redc2", "redc3"} :
                fn = FnCall(nm, "none", x, ylow + h * R, R, N)
           \/ \E k \in {"CIOS", "Words"} :
                fn = FnCall("m.redc", k, x, ylow + h * R, R, N)

SpecHigh == InitHigh /\ [][NextFn]_vars

(***************************************************************************)
(* The caller goes on using the integers it passed to the constructor: it    *)
(* overwrites its R and its N while a goroutine calls Mul on the context.    *)
(***************************************************************************)
\* the values the caller stores into its own R and N: zero, or another
\* valid parameter
CallerRs == {0, W}

CallerNs == {0, ConcN - 2}

\* R.Set(v) / N.Set(v) on the caller's own integers
CallerChange ==
  /\ Constructed
  /\ \/ \E v \in CallerRs : ints' = [ints EXCEPT ![ArgR] = v]
     \/ \E v \in CallerNs : ints' = [ints EXCEPT ![ArgN] = v]
  /\ UNCHANGED <<ctx, ctx0, bufs, call, mas, nr, fn>>

NextCopy ==
  \/ CreateConc
  \/ CallerChange
  \/ CanCall(1) /\ \E x \in ConcOperands, y \in ConcOperands : Call(1, x, y)
  \/ RedcEnter(1)
  \/ RedcIter(1)
  \/ RedcExit(1)
  \/ Return(1)

SpecCopy == Init /\ [][NextCopy]_vars

(***************************************************************************)
(* frombigInt and tobigInt applied one after the other, in both orders, to   *)
(* every integer of up to MaxT words and every word sequence of up to MaxT   *)
(* words.  The frame holds the integer in x, the words in Tw, and the        *)
(* results in T (integer) and vals (words).                                  *)
(***************************************************************************)
AllWords == UNION {[1..k -> 0..(W - 1)] : k \in 0..MaxT}

InitConv ==
  /\ ctx = NoCtx
  /\ ctx0 = NoCtxVal
  /\ ints = [a \in Addrs |-> 0]
  /\ bufs = [a \in Addrs |-> << >>]
  /\ call = [p \in Procs |-> Idle]
  /\ mas = MasIdle
  /\ nr = NrIdle
  /\ \/ \E x \in 0..(W^MaxT - 1) :
          fn = [FnIdle EXCEPT !.pc = "call", !.name = "frombigInt", !.x = x]
     \/ \E w \in AllWords :
          fn = [FnIdle EXCEPT !.pc = "call", !.name = "tobigInt", !.Tw = w]

\* words := frombigInt(x), on the argument or on the result of tobigInt
ConvFrom ==
  /\ \/ /\ fn.pc = "call" /\ fn.name = "frombigInt"
        /\ fn' = [fn EXCEPT !.pc = "next", !.Tw = frombigInt(fn.x)]
     \/ /\ fn.pc = "next" /\ fn.name = "tobigInt"
        /\ fn' = [fn EXCEPT !.pc = "ret", !.vals = frombigInt(fn.T)]
  /\ UNCHANGED <<ctx, ctx0, ints, bufs, call, mas, nr>>

\* t := tobigInt(words), on the argument or on the result of frombigInt
ConvTo ==
  /\ \/ /\ fn.pc = "call" /\ fn.name = "tobigInt"
        /\ fn' = [fn EXCEPT !.pc = "next", !.T = tobigInt(fn.Tw)]
     \/ /\ fn.pc = "next" /\ fn.name = "frombigInt"
        /\ fn' = [fn EXCEPT !.pc = "ret", !.T = tobigInt(fn.Tw)]
  /\ UNCHANGED <<ctx, ctx0, ints, bufs, call, mas, nr>>

NextConv == ConvFrom \/ ConvTo

SpecConv == InitConv /\ [][NextConv]_vars

(***************************************************************************)
(* Properties.                                                               *)
(***************************************************************************)
Finished(p) == call[p].pc \in {"done", "panic"}

\* the redc call of stage st of p's Mul has returned
StageDone(p, st) ==
  \/ call[p].pc = "done"
  \/ InCall(p) /\ call[p].stage > st

\* C1: whenever Mul ends on a context built from an odd N and a word-aligned
\* R = 2^k > N with operands in [0, N), it has returned (x*y) mod N.
C1_MulIsProductModN ==
  \A p \in Procs :
    Finished(p) =>
      /\ call[p].pc = "done"
      /\ Result(p) = (call[p].x0 * call[p].y0) % ctx0.N

\* C2: every value Mul returns lies in [0, N).
C2_ResultInRange ==
  \A p \in Procs :
    call[p].pc = "done" => (0 <= Result(p) /\ Result(p) < ctx0.N)

\* C2 witness: Mul has returned for the operands x = N-1, y = N-1, N > 1.
C2_Witness ==
  \E p \in Procs :
    /\ call[p].pc = "done"
    /\ ctx0.N > 1
    /\ call[p].x0 = ctx0.N - 1
    /\ call[p].y0 = ctx0.N - 1

\* C3: for the same (x, y, R, N) the three variants all complete and return
\* the value the call returned.
C3_VariantsAgree ==
  \A p \in Procs :
    Finished(p) =>
      /\ call[p].pc = "done"
      /\ \A k \in Kinds :
           LET r == MulOf(Construct(k, ctx0.R, ctx0.N), call[p].x0, call[p].y0)
           IN r.ok /\ r.val = Result(p)

\* C4: with an operand equal to 0 or 1, Mul returns: 0 if an operand is 0,
\* the other operand (mod N) if an operand is 1.
C4_ZeroIdentity ==
  \A p \in Procs :
    (Finished(p) /\ (call[p].x0 \in {0, 1} \/ call[p].y0 \in {0, 1})) =>
      /\ call[p].pc = "done"
      /\ (call[p].x0 = 0 \/ call[p].y0 = 0) => Result(p) = 0
      /\ call[p].x0 = 1 => Result(p) = call[p].y0 % ctx0.N
      /\ call[p].y0 = 1 => Result(p) = call[p].x0 % ctx0.N

\* C5: for every odd n the returned ni satisfies n * ni = -1 modulo the word,
\* and the all-ones word yields 1.
C5_InverseIsMinusOne ==
  (nr.pc = "ret" /\ nr.n % 2 = 1) =>
    /\ (nr.n * nr.out) % NRWord = NRWord - 1
    /\ nr.n = NRWord - 1 => nr.out = 1

\* C5 witness: the function has returned 1 for the all-ones word.
C5_Witness == nr.pc = "ret" /\ nr.n = NRWord - 1 /\ nr.out = 1

\* the exponent of R is aligned to what the variant needs: any k for the
\* bit-serial variant, a positive multiple of the word size for the others
AlignedFor(kind, R) ==
  /\ IsPow2(R)
  /\ kind # "Bitwise" => (R > 1 /\ (BitLen(R) - 1) % WordBits = 0)

\* C6: a constructor returns no context when N is even or R is not a power
\* of two aligned for the variant.
C6_ConstructorRejects ==
  Constructed => (ctx0.N % 2 = 1 /\ AlignedFor(ctx0.kind, ctx0.R))

\* C7: from the constructor's return on, the context holds the values the
\* constructor gave it, and during a call the argument integers hold the
\* values the caller passed.
C7_ContextImmutable ==
  /\ Constructed => CtxVal = ctx0
  /\ \A p \in Procs :
       call[p].pc # "idle" =>
         /\ ints[<<p, "x">>] = call[p].x0
         /\ ints[<<p, "y">>] = call[p].y0

\* C7 witness: Mul has run to its return on a word-array context whose
\* modulus has more than one word.
C7_Witness ==
  \E p \in Procs :
    /\ call[p].pc = "done"
    /\ ctx.kind = "Words"
    /\ Len(bufs[<<0, "NN">>]) > 1
    /\ call[p].x0 > 1
    /\ call[p].y0 > 1

\* C8: a call that shares the context with another call in progress ends as
\* it ends when run alone: with the same value, or with the same panic.
C8_SameAsAlone ==
  \A p \in Procs :
    Finished(p) =>
      LET r == MulOf(ctx0, call[p].x0, call[p].y0)
      IN IF r.ok THEN call[p].pc = "done" /\ Result(p) = r.val
         ELSE call[p].pc = "panic"

\* C8 witness: both calls have returned, each having taken steps while the
\* other was in progress, with different operands.
C8_Witness ==
  /\ call[1].pc = "done" /\ call[2].pc = "done"
  /\ call[1].ov /\ call[2].ov
  /\ call[1].x0 # call[2].x0

\* C9: every redc call with operands in [0, N) returns the r in [0, N) with
\* r * R = x * y (mod N); none panics.
C9_RedcContract ==
  \A p \in Procs :
    /\ call[p].pc # "panic"
    /\ \A st \in 1..4 :
         LET x == ints[XAddr(p, st)]
             y == ints[YAddr(p, st)]
             r == ints[TAddr(p, st)]
         IN (StageDone(p, st) /\ x < ctx0.N /\ y < ctx0.N) =>
              /\ 0 <= r /\ r < ctx0.N
              /\ (r * ctx0.R) % ctx0.N = (x * y) % ctx0.N

RECURSIVE Pow(_, _)
Pow(b, e) == IF e = 0 THEN 1 ELSE b * Pow(b, e - 1)

\* T can hold T + arr * scalar
MasFits ==
  tobigInt(mas.T) + tobigInt(mas.arr) * mas.scalar < Pow(W, Len(mas.T))

\* C10: called with len(T) >= len(arr) and T able to hold the sum,
\* mulAddScalar leaves T holding value(T) + value(arr) * scalar.
C10_MulAddScalar ==
  (mas.pc # "call" /\ Len(mas.T) >= Len(mas.arr) /\ MasFits) =>
    /\ mas.pc = "ret"
    /\ Len(mas.out) = Len(mas.T)
    /\ tobigInt(mas.out) = tobigInt(mas.T) + tobigInt(mas.arr) * mas.scalar
    /\ mas.carry = 0

\* C10 witness: the sum fits and a carry went beyond len(arr), through a
\* full word, into the second word above arr.
C10_Witness ==
  /\ mas.pc = "ret"
  /\ MasFits
  /\ Len(mas.arr) >= 1
  /\ Len(mas.T) >= Len(mas.arr) + 2
  /\ mas.out[Len(mas.arr) + 1] # mas.T[Len(mas.arr) + 1]
  /\ mas.out[Len(mas.arr) + 2] # mas.T[Len(mas.arr) + 2]

FnEnded == fn.pc \in {"ret", "panic"}

\* C11: in every redc3 call with valid arguments no index goes out of
\* range, T is at least as long as x's words and N's words in every
\* iteration, and no mulAddScalar call ends with a carry left.
C11_BufferSufficient ==
  (fn.name = "redc3" /\ fn.pc # "call") =>
    /\ fn.pc # "panic"
    /\ fn.fits
    /\ ~fn.lost

\* the context whose Mul a standalone form corresponds to
KindOfForm(name) ==
  CASE name = "multiply3" -> "CIOS"
    [] name = "multiply4" -> "Words"
    [] OTHER              -> "Bitwise"

\* C12: each of multiply, multiply2, multiply3, multiply4, when it ends, has
\* returned (x*y) mod N, the value the corresponding context's Mul returns.
C12_StandaloneForms ==
  (fn.name \in {"multiply", "multiply2", "multiply3", "multiply4"} /\ FnEnded) =>
    /\ fn.pc = "ret"
    /\ fn.out = (fn.x * fn.y) % fn.N
    /\ LET r == MulOf(Construct(KindOfForm(fn.name), fn.R, fn.N), fn.x, fn.y)
       IN r.ok /\ r.val = fn.out

\* C13: on every context redc(x, RR) returns x*R mod N, and redc of that
\* value and 1 returns x.
C13_RoundTrip ==
  (fn.name = "roundtrip" /\ FnEnded) =>
    /\ fn.pc = "ret"
    /\ fn.vals[1] = (fn.x * fn.R) % fn.N
    /\ fn.out = fn.x

\* C16: redc, redc2 and redc3 return the same value for the same valid
\* arguments, whatever the number of words of x and y; none panics.
C16_RedcAgree ==
  (fn.name \in {"redc", "redc2", "redc3"} /\ FnEnded) =>
    /\ fn.pc = "ret"
    /\ fn.name # "redc" => fn.out = redc(fn.x, fn.y, fn.R, fn.N).val
    /\ fn.name # "redc2" => fn.out = redc2(fn.x, fn.y, fn.R, fn.N).val

\* the accumulator of the redc call p is in, as an integer
AccOf(p) ==
  IF ctx.kind = "Words" THEN tobigInt(bufs[TAddr(p, call[p].stage)])
  ELSE ints[TAddr(p, call[p].stage)]

\* C14: a context built for an odd N holds RR = R*R mod N with 0 <= RR < N,
\* and in the CIOS variants NI is a word with (N mod 2^w) * NI = -1 mod 2^w,
\* the only such word, so fixed by N mod 2^w alone.
C14_Precomputed ==
  (Constructed /\ CtxVal.N % 2 = 1) =>
    /\ CtxVal.RR = (CtxVal.R * CtxVal.R) % CtxVal.N
    /\ 0 <= CtxVal.RR /\ CtxVal.RR < CtxVal.N
    /\ ctx.kind # "Bitwise" =>
         /\ 0 <= ctx.NI /\ ctx.NI < W
         /\ ((CtxVal.N % W) * ctx.NI) % W = W - 1
         /\ \A v \in 0..(W - 1) :
              ((CtxVal.N % W) * v) % W = W - 1 => v = ctx.NI

\* C14 witness: a word-array context over a modulus of several words whose
\* low word is not the all-ones word, and with RR different from 0 and 1.
C14_Witness ==
  /\ ctx.kind = "Words"
  /\ CtxVal.N % 2 = 1
  /\ CtxVal.N > W
  /\ CtxVal.N % W # W - 1
  /\ CtxVal.RR > 1

\* R = 2^k with k a multiple of the word size
WordAligned(R) == IsPow2(R) /\ (BitLen(R) - 1) % WordBits = 0

\* C15 as stated: in a CIOS context built from a word-aligned R, S is
\* R.BitLen() divided by the word size and the division leaves no remainder.
C15_SNoRemainder ==
  (Constructed /\ ctx.kind # "Bitwise" /\ WordAligned(CtxVal.R)) =>
    /\ ctx.S = BitLen(CtxVal.R) \div WordBits
    /\ BitLen(CtxVal.R) % WordBits = 0

\* C15 amended: in a CIOS context built from a word-aligned R = 2^k, S is
\* k divided by the word size, R = 2^(wordSize * S); R.BitLen() is k + 1, so
\* the division S = R.BitLen() / wordSize leaves the remainder 1.
C15_SIsWordCount ==
  (Constructed /\ ctx.kind # "Bitwise" /\ WordAligned(CtxVal.R)) =>
    /\ CtxVal.R = 2^(WordBits * ctx.S)
    /\ BitLen(CtxVal.R) = WordBits * ctx.S + 1
    /\ BitLen(CtxVal.R) % WordBits = 1

\* C15 witness: a CIOS context over the largest word-aligned R.
C15_Witness ==
  /\ ctx.kind = "CIOS"
  /\ CtxVal.R = MaxR
  /\ ctx.S = MaxS

\* C17: in the bit-serial redc, after i iterations T * 2^i = x * y (mod N),
\* and every right shift discarded a zero bit.
C17_BitSerialInvariant ==
  \A p \in Procs :
    (ctx.kind = "Bitwise" /\ call[p].pc = "loop") =>
      LET st == call[p].stage
          i  == call[p].i - 1
      IN /\ 0 <= i /\ i <= BitLen(CtxVal.R) - 1
         /\ (AccOf(p) * Pow(2, i)) % CtxVal.N
              = (ints[XAddr(p, st)] * ints[YAddr(p, st)]) % CtxVal.N
         /\ call[p].low = 0

\* C17 witness: all k iterations of a bit-serial redc are done and N was
\* added on the way (T * 2^k is not the product itself).
C17_Witness ==
  \E p \in Procs :
    /\ ctx.kind = "Bitwise"
    /\ call[p].pc = "loop"
    /\ call[p].i = BitLen(CtxVal.R)
    /\ call[p].i > 1
    /\ AccOf(p) * Pow(2, call[p].i - 1)
         # ints[XAddr(p, call[p].stage)] * ints[YAddr(p, call[p].stage)]

\* C18: in both CIOS variants every iteration that ends has discarded a
\* zero word.
C18_LowWordZero ==
  \A p \in Procs :
    (ctx.kind \in {"CIOS", "Words"} /\ call[p].pc = "loop" /\ call[p].i > 0) =>
      call[p].low = 0

\* C18 witness: a word-serial redc over big.Int has done all its iterations,
\* at least two, with NI other than 1 and a non-zero accumulator left.
C18_Witness ==
  \E p \in Procs :
    /\ ctx.kind = "CIOS"
    /\ call[p].pc = "loop"
    /\ call[p].i = ctx.S
    /\ ctx.S >= 2
    /\ ctx.NI # 1
    /\ AccOf(p) > 0

\* C19: when the loop of a redc with operands in [0, N) has ended, the
\* accumulator is in [0, 2N), and one conditional subtraction brings it into
\* [0, N).
C19_OneSubtraction ==
  \A p \in Procs :
    (/\ call[p].pc = "loop"
     /\ ~LoopOn(p)
     /\ ints[XAddr(p, call[p].stage)] < CtxVal.N
     /\ ints[YAddr(p, call[p].stage)] < CtxVal.N) =>
      /\ 0 <= AccOf(p)
      /\ AccOf(p) < 2 * CtxVal.N
      /\ 0 <= FinalSub(AccOf(p), CtxVal.N)
      /\ FinalSub(AccOf(p), CtxVal.N) < CtxVal.N

\* C19 witness: the loop of a word-array redc has ended with an accumulator
\* in [N, 2N), so the subtraction is taken.
C19_Witness ==
  \E p \in Procs :
    /\ ctx.kind = "Words"
    /\ call[p].pc = "loop"
    /\ ~LoopOn(p)
    /\ AccOf(p) >= CtxVal.N

\* the precision reached after i updates, capped by the word
PrecBits(i) == IF 2^i < NRBits THEN 2^i ELSE NRBits

IterationsDone(p) == IF ctx.kind = "Bitwise" THEN call[p].i - 1 ELSE call[p].i

\* the number of iterations R fixes: k for the bit-serial redc, k / wordSize
\* for the word-serial ones, R = 2^k
IterationsOf(kind, R) ==
  IF kind = "Bitwise" THEN BitLen(R) - 1 ELSE (BitLen(R) - 1) \div WordBits

\* C21: every redc call runs its loop to the end, and when the loop ends it
\* has made exactly the number of iterations that R fixes, whatever x and y.
C21_FixedIterations ==
  \A p \in Procs :
    /\ call[p].pc # "panic"
    /\ call[p].pc = "loop" =>
         IterationsDone(p) <= IterationsOf(ctx.kind, CtxVal.R)
    /\ (call[p].pc = "loop" /\ ~LoopOn(p)) =>
         IterationsDone(p) = IterationsOf(ctx.kind, CtxVal.R)

\* C22: every Mul call ends by returning, after exactly four redc calls on
\* (x, RR), (y, RR), (xMont, yMont), (product, 1) in this order, and returns
\* the value of the fourth.
C22_FourStepPipeline ==
  \A p \in Procs :
    /\ Len(call[p].ops) <= 4
    /\ Len(call[p].rets) <= Len(call[p].ops)
    /\ Finished(p) =>
         /\ call[p].pc = "done"
         /\ Len(call[p].ops) = 4 /\ Len(call[p].rets) = 4
         /\ call[p].ops[1] = <<call[p].x0, ctx0.RR>>
         /\ call[p].ops[2] = <<call[p].y0, ctx0.RR>>
         /\ call[p].ops[3] = <<call[p].rets[1], call[p].rets[2]>>
         /\ call[p].ops[4] = <<call[p].rets[3], 1>>
         /\ Result(p) = call[p].rets[4]

\* C23: mulAddScalar does not return with a carry left over: when the sum
\* does not fit T the call fails instead of returning a truncated sum.
C23_NoSilentTruncation ==
  mas.pc = "ret" =>
    /\ mas.carry = 0
    /\ tobigInt(mas.out) = tobigInt(mas.T) + tobigInt(mas.arr) * mas.scalar

\* C25: for the first words of T and arr of a call, its scalar and every
\* incoming carry, hi + c1 + c2 is at most the largest word and the word stored
\* together with it is exactly T[i] + arr[i] * scalar + carry; and a call
\* that returns has lost nothing but the carry it returns with.
C25_CarryNeverWraps ==
  /\ (mas.pc \in {"ret", "panic"} /\ Len(mas.T) >= 1 /\ Len(mas.arr) >= 1) =>
       \A cin \in 0..(W - 1) :
         LET w == masWord(mas.T[1], mas.arr[1], mas.scalar, cin)
         IN /\ w.carry <= W - 1
            /\ w.sum + W * w.carry = mas.T[1] + mas.arr[1] * mas.scalar + cin
  /\ mas.pc = "ret" =>
       tobigInt(mas.out) + mas.carry * Pow(W, Len(mas.T))
         = tobigInt(mas.T) + tobigInt(mas.arr) * mas.scalar

\* C25 witness: a call has returned in which the largest scalar met the
\* largest words of T and arr in two successive positions.
C25_Witness ==
  /\ mas.pc = "ret"
  /\ Len(mas.arr) >= 2
  /\ mas.scalar = W - 1
  /\ mas.arr[1] = W - 1 /\ mas.arr[2] = W - 1
  /\ mas.T[1] = W - 1 /\ mas.T[2] = W - 1

RECURSIVE Strip(_)
\* w without its high-order zero words
Strip(w) ==
  IF w = << >> \/ w[Len(w)] # 0 THEN w ELSE Strip(SubSeq(w, 1, Len(w) - 1))

RECURSIVE WordSum(_, _)
\* the sum of w[i] * W^(i-1) over the first n words
WordSum(w, n) == IF n = 0 THEN 0 ELSE WordSum(w, n - 1) + w[n] * Pow(W, n - 1)

\* C24: tobigInt(frombigInt(x)) = x, the words being those of x least
\* significant first with no high zero word; frombigInt(tobigInt(w)) is w
\* without its high zero words, tobigInt(w) being the sum of w[i] * W^i.
C24_ConversionRoundTrip ==
  /\ (fn.name = "frombigInt" /\ fn.pc \in {"next", "ret"}) =>
       /\ \A i \in 1..Len(fn.Tw) : fn.Tw[i] = (fn.x \div Pow(W, i - 1)) % W
       /\ fn.x < Pow(W, Len(fn.Tw))
       /\ Strip(fn.Tw) = fn.Tw
       /\ fn.pc = "ret" => fn.T = fn.x
  /\ (fn.name = "tobigInt" /\ fn.pc \in {"next", "ret"}) =>
       /\ fn.T = WordSum(fn.Tw, Len(fn.Tw))
       /\ fn.pc = "ret" => fn.vals = Strip(fn.Tw)

\* C24 witness: a sequence with a zero word inside and a zero word on top
\* has gone through both conversions and come back shorter.
C24_Witness ==
  /\ fn.name = "tobigInt"
  /\ fn.pc = "ret"
  /\ Len(fn.Tw) = MaxT
  /\ fn.Tw[1] = 0
  /\ fn.Tw[MaxT] = 0
  /\ fn.T > 0
  /\ Len(fn.vals) < Len(fn.Tw)

\* the caller's R and N no longer hold what the constructor was given
CallerChanged == ints[ArgR] # ctx0.R /\ ints[ArgN] # ctx0.N

\* C26: once the caller has changed its own R and N, the context still holds
\* the values the constructor computed, and a Mul call ends as it ends on
\* the context as built.
C26_PrivateCopies ==
  (Constructed /\ CallerChanged) =>
    /\ CtxVal = ctx0
    /\ \A p \in Procs :
         Finished(p) =>
           LET r == MulOf(ctx0, call[p].x0, call[p].y0)
           IN IF r.ok THEN call[p].pc = "done" /\ Result(p) = r.val
              ELSE call[p].pc = "panic"

\* C26 witness: Mul has returned a non-zero product on a word-array context
\* whose caller has overwritten both its R and its N with other valid
\* parameters.
C26_Witness ==
  /\ ctx.kind = "Words"
  /\ ints[ArgR] = W
  /\ ints[ArgN] = ConcN - 2
  /\ call[1].pc = "done"
  /\ Result(1) > 0

\* how the reduction of the call in progress ends on the operands x and y
EndsOn(f, x, y) ==
  CASE f.name = "redc2" -> redc2(x, y, f.R, f.N)
    [] f.name = "redc3" -> redc3(x, y, f.R, f.N)
    [] OTHER            -> redcOf(Construct(f.kind, f.R, f.N), x, y)

\* C27: a word-by-word redc called with a second operand y that has words
\* at index >= S ends as the same redc ends on y mod 2^(64*S): with the same
\* value.
C27_HighWordsIgnored ==
  FnEnded =>
    LET r == EndsOn(fn, fn.x, fn.y % fn.R)
    IN /\ r.ok
       /\ fn.pc = "ret"
       /\ fn.out = r.val

\* the buffer the word-array reduction in progress started with
FnT0 == Zeros(Len(Bits(fn.a)) + Len(Bits(fn.b)) + FnS(fn) + 1)

\* the loop of MontgomeryWords.redc run for n iterations on the operands of
\* the reduction in progress
InlinedAfter(n) ==
  wordsLoop([S |-> n, NN |-> frombigInt(fn.N), NI |-> FnNI(fn)],
            FnT0, frombigInt(fn.a), frombigInt(fn.b), 0)

\* the loop of redc3 run for n iterations on the same operands
HelperAfter(n) ==
  redc3Loop(FnT0, frombigInt(fn.a), frombigInt(fn.b), frombigInt(fn.N),
            FnNI(fn), 0, n)

\* the other implementation's loop, n iterations
OtherAfter(n) == IF AlgOf(fn) = "redc3" THEN InlinedAfter(n) ELSE HelperAfter(n)

\* C28: a word-array reduction written one way holds, after every
\* iteration, the buffer T that the one written the other way holds after
\* as many iterations on the same x, y, N, NI and S; where one fails with an
\* index out of range the other fails in the same iteration; and a direct
\* redc3 call returns what MontgomeryWords.redc returns.
C28_StepForStep ==
  AlgOf(fn) \in {"redc3", "Words"} =>
    /\ fn.pc = "loop" =>
         LET o == OtherAfter(fn.i) IN o.ok /\ o.T = fn.Tw
    /\ fn.pc = "panic" =>
         OtherAfter(fn.i).ok /\ ~OtherAfter(fn.i + 1).ok
    /\ (fn.pc = "ret" /\ fn.name = "redc3") =>
         LET r == MontgomeryWords_redc(Construct("Words", fn.R, fn.N), fn.x, fn.y)
         IN r.ok /\ r.val = fn.out

\* C28 witness: redc3 has run all its iterations, two or more, on a modulus
\* of two or more words, and holds a non-zero buffer.
C28_Witness ==
  /\ AlgOf(fn) = "redc3"
  /\ fn.pc = "loop"
  /\ fn.i = FnS(fn)
  /\ fn.i >= 2
  /\ Len(Bits(fn.N)) >= 2
  /\ tobigInt(fn.Tw) > 0

=============================================================================
